---- MODULE Spec2Model ----
(***************************************************************************)
(* USACO problem scraper: src/src/scraper.py (class USACOProblem and the   *)
(* command line entry point) and src/src/main.py (the GUI).                *)
(*                                                                         *)
(* Python strings are sequences of one-character strings, so that prefix,  *)
(* substring, split, strip and replace are computed character by           *)
(* character as the Python runtime computes them.                          *)
(***************************************************************************)
EXTENDS Integers, Sequences, FiniteSets, TLC

VARIABLES
    cl_pc,          \* _clean_markdown_text harness: "in", "once", "twice"
    cl_text,        \* the text handed to _clean_markdown_text
    cl_once,        \* _clean_markdown_text(cl_text)
    cl_twice,       \* _clean_markdown_text(cl_once)
    usaco_problem,  \* the USACOProblem the caller holds (problem_info), or None
    cwd,            \* os.getcwd()
    fs_files,       \* the files on disk: absolute path -> content
    last_write,     \* the last write_problem call: arguments, locals, outcome
    n_writes,       \* the number of write_problem calls made
    fm_pc,          \* sample formatting harness: "in", "done"
    fm_text,        \* problem_text before the sample loop (line 166)
    fm_inputs,      \* sample_inputs
    fm_outputs,     \* sample_outputs
    fm_steps,       \* problem_text before the loop and after each replace
    cc_pc,          \* two concurrent write_problem calls: "start", "listed", "done"
    cc_save_as,     \* the save_as both calls are given
    cc_listing,     \* each call's existing_files
    cc_target,      \* each call's resolved save_as
    cc_after,       \* whether the call listed after the other call's write
    pc,             \* where the GUI is: "idle", or inside USACOProblem(url) at
                    \* "init", "fetch" or "parse"
    url,            \* the url argument of the constructor call
    attempts,       \* _fetch_problem_page: attempts
    response,       \* _fetch_problem_page: response
    fetch_log,      \* the outcome of each requests.get of the constructor call
    construct,      \* the last constructor call: its url and how it ended
    problem_info,   \* self.problem_info of the object under construction
    url_entry,      \* the content of the URL entry
    scrape_button,  \* the state of the Scrape button
    save_button,    \* the state of the Save button
    text_area,      \* the content of the text area
    save_directory  \* config['save_directory']

cleanVars == <<cl_pc, cl_text, cl_once, cl_twice>>
writeVars == <<usaco_problem, cwd, fs_files, last_write, n_writes>>
fmtVars == <<fm_pc, fm_text, fm_inputs, fm_outputs, fm_steps>>

concVars == <<cc_pc, cc_save_as, cc_listing, cc_target, cc_after>>

ctorVars == <<pc, url, attempts, response, fetch_log, construct, problem_info>>
widgetVars == <<url_entry, scrape_button, save_button, text_area, save_directory>>
guiVars == <<ctorVars, widgetVars>>

vars == <<cleanVars, writeVars, fmtVars, concVars, guiVars>>

\* Python's None, where a string is expected
None == "None"

\* None, where a USACOProblem or a call record is expected
NoProblem == [none |-> TRUE]
NoCall == [result |-> None]

(***************************************************************************)
(* Python str primitives                                                   *)
(***************************************************************************)

\* str.isspace() characters that occur in the model's alphabets
Whitespace == {" ", "\t", "\n", "\r", "\f"}

\* line boundaries of str.splitlines() that occur in the model's alphabets
LineBreaks == {"\n", "\r", "\f"}

Min(a, b) == IF a <= b THEN a ELSE b

\* s[i:j] with 0-based Python indices, 0 <= i, j <= len(s)
Slice(s, i, j) == IF j <= i THEN <<>> ELSE SubSeq(s, i + 1, j)

\* s.startswith(p)
StartsWith(s, p) == Len(p) <= Len(s) /\ SubSeq(s, 1, Len(p)) = p

\* s.endswith(p)
EndsWith(s, p) == Len(p) <= Len(s) /\ SubSeq(s, Len(s) - Len(p) + 1, Len(s)) = p

\* s.startswith(p, i): p occurs in s at 0-based offset i
OccursAt(s, p, i) == i + Len(p) <= Len(s) /\ SubSeq(s, i + 1, i + Len(p)) = p

\* p in s
Contains(s, p) == \E i \in 0..(Len(s) - Len(p)) : OccursAt(s, p, i)

\* s.rstrip()
RECURSIVE RStrip(_)
RStrip(s) ==
    IF s # <<>> /\ s[Len(s)] \in Whitespace
    THEN RStrip(SubSeq(s, 1, Len(s) - 1))
    ELSE s

\* s.lstrip()
RECURSIVE LStrip(_)
LStrip(s) ==
    IF s # <<>> /\ s[1] \in Whitespace THEN LStrip(Tail(s)) ELSE s

\* s.strip()
Strip(s) == LStrip(RStrip(s))

\* sep.join(parts)
RECURSIVE Join(_, _)
Join(parts, sep) ==
    IF parts = <<>> THEN <<>>
    ELSE IF Len(parts) = 1 THEN parts[1]
    ELSE parts[1] \o sep \o Join(Tail(parts), sep)

\* the least element of a non-empty set of integers
Least(S) == CHOOSE i \in S : \A j \in S : i <= j

\* s.split(c) for a one-character separator c
RECURSIVE Split(_, _)
Split(s, c) ==
    LET hits == {i \in 1..Len(s) : s[i] = c}
    IN  IF hits = {} THEN <<s>>
        ELSE <<SubSeq(s, 1, Least(hits) - 1)>>
                 \o Split(SubSeq(s, Least(hits) + 1, Len(s)), c)

\* s.splitlines(): "\r\n" is one boundary, no empty last line after a
\* final boundary
RECURSIVE SplitLines(_)
SplitLines(s) ==
    LET hits == {i \in 1..Len(s) : s[i] \in LineBreaks}
        i    == Least(hits)
        next == IF s[i] = "\r" /\ i < Len(s) /\ s[i + 1] = "\n" THEN i + 2 ELSE i + 1
    IN  IF s = <<>> THEN <<>>
        ELSE IF hits = {} THEN <<s>>
        ELSE <<SubSeq(s, 1, i - 1)>> \o SplitLines(SubSeq(s, next, Len(s)))

(***************************************************************************)
(* USACOProblem._clean_markdown_text                                       *)
(***************************************************************************)

\* the body of the for loop, over the lines still to visit
RECURSIVE CleanLines(_, _)
CleanLines(lines, prev_empty) ==
    IF lines = <<>> THEN <<>>
    ELSE LET line     == lines[1]
             is_empty == Strip(line) = <<>>
             fixed    == IF RStrip(line) # line /\ Len(line) - Len(RStrip(line)) = 1
                         THEN RStrip(line) ELSE line
         IN  (IF ~(is_empty /\ prev_empty) THEN <<fixed>> ELSE <<>>)
                 \o CleanLines(Tail(lines), is_empty)

CleanMarkdownText(text) == Join(CleanLines(SplitLines(text), FALSE), <<"\n">>)

(***************************************************************************)
(* USACOProblem._format_problem_statement: the substitutions               *)
(***************************************************************************)

\* s.replace(old, new): every occurrence, left to right, without overlap;
\* an empty old matches before every character and at the end
RECURSIVE Replace(_, _, _)
Replace(s, old, new) ==
    IF old = <<>>
    THEN IF s = <<>> THEN new ELSE new \o <<s[1]>> \o Replace(Tail(s), old, new)
    ELSE LET hits == {i \in 0..(Len(s) - Len(old)) : OccursAt(s, old, i)}
             i    == Least(hits)
         IN  IF hits = {} THEN s
             ELSE SubSeq(s, 1, i) \o new
                      \o Replace(SubSeq(s, i + Len(old) + 1, Len(s)), old, new)

INPUT_LABEL ==
    <<"*", "*", "S", "A", "M", "P", "L", "E", " ", "I", "N", "P", "U", "T",
      ":", "*", "*", "\n", "\n">>

OUTPUT_LABEL ==
    <<"*", "*", "S", "A", "M", "P", "L", "E", " ", "O", "U", "T", "P", "U",
      "T", ":", "*", "*", "\n", "\n">>

\* the character U+0060 of the code fence, which the TLA+ lexer does not
\* accept inside a string
BQ == "U+0060"

\* a variant of the fenced block that is never closed
FencedNoClose(sample) == <<BQ, BQ, BQ, "t", "x", "t", "\n">> \o sample

\* f"```txt\n{sample}\n```" (line 169, line 174)
Fenced(sample) ==
    <<BQ, BQ, BQ, "t", "x", "t", "\n">> \o sample \o <<"\n", BQ, BQ, BQ>>

\* lines 168-170 and 173-175: one find-and-replace of a labelled sample
FormatSample(problem_text, label, sample) ==
    Replace(problem_text, label \o sample, label \o Fenced(sample))

\* len(list(zip(sample_inputs, sample_outputs)))
PairCount(sample_inputs, sample_outputs) ==
    Min(Len(sample_inputs), Len(sample_outputs))

\* lines 166-175: problem_text before the loop, then after each replace of
\* pairs i, i + 1, ... (input, output, input, output, ...)
RECURSIVE SampleSteps(_, _, _, _)
SampleSteps(problem_text, sample_inputs, sample_outputs, i) ==
    IF i > PairCount(sample_inputs, sample_outputs) THEN <<problem_text>>
    ELSE LET after_in  == FormatSample(problem_text, INPUT_LABEL, sample_inputs[i])
             after_out == FormatSample(after_in, OUTPUT_LABEL, sample_outputs[i])
         IN  <<problem_text, after_in>>
                 \o SampleSteps(after_out, sample_inputs, sample_outputs, i + 1)

\* lines 166-175: problem_text after the loop
FormatSamples(problem_text, sample_inputs, sample_outputs) ==
    LET steps == SampleSteps(problem_text, sample_inputs, sample_outputs, 1)
    IN  steps[Len(steps)]

(***************************************************************************)
(* USACOProblem: the URL predicate, the page fetch and the page parse      *)
(***************************************************************************)

USACO_BASE_URL ==
    <<"h", "t", "t", "p", "s", ":", "/", "/", "u", "s", "a", "c", "o", ".",
      "o", "r", "g", "/">>

PROBLEM_SUBWEBSITE ==
    <<"i", "n", "d", "e", "x", ".", "p", "h", "p", "?", "p", "a", "g", "e",
      "=", "v", "i", "e", "w", "p", "r", "o", "b", "l", "e", "m">>

\* a variant of the predicate that does not look for the page marker
is_valid_url_origin_only(u) == u # <<>> /\ StartsWith(u, USACO_BASE_URL)

\* USACOProblem.is_valid_url
is_valid_url(u) ==
    /\ u # <<>>
    /\ StartsWith(u, USACO_BASE_URL)
    /\ Contains(u, PROBLEM_SUBWEBSITE)

\* None, where a requests.Response is expected
NoResponse == [none |-> TRUE]

max_attempts == 3

\* a variant of the loop condition that allows one attempt more
KeepTryingOneMore(resp, n) ==
    resp = NoResponse /\ n <= max_attempts

\* line 65: the condition of the while loop
KeepTrying(resp, n) ==
    resp = NoResponse /\ n < max_attempts

\* None, where a string field of problem_info is expected
NONE == <<"None">>

\* lines 24-32: problem_info as __init__ sets it
NewProblemInfo(u) ==
    [url |-> u, contest_url |-> NONE, contest_title |-> NONE,
     problem_title |-> NONE, division |-> NONE, abbreviated_title |-> NONE,
     text |-> NONE]

\* the permutations of a finite set, as sequences: the orders in which a
\* Python set may be iterated
Perms(S) ==
    {f \in [1..Cardinality(S) -> S] : \A x \in S : \E i \in 1..Cardinality(S) : f[i] = x}

\* [x.text.strip() for x in elements]
StripAll(texts) == [i \in 1..Len(texts) |-> Strip(texts[i])]

\* {x.text.strip() for x in elements}
StripSet(texts) == {Strip(texts[i]) : i \in 1..Len(texts)}

BOLD == <<"*", "*">>

\* lines 154-155: the sub-header replacements, in the order given
RECURSIVE FormatSubheaders(_, _)
FormatSubheaders(problem_text, subheaders) ==
    IF subheaders = <<>> THEN problem_text
    ELSE FormatSubheaders(
             Replace(problem_text, subheaders[1],
                     <<"\n">> \o BOLD \o subheaders[1] \o BOLD \o <<"\n">>),
             Tail(subheaders))

SAMPLE_INPUT ==
    <<"S", "A", "M", "P", "L", "E", " ", "I", "N", "P", "U", "T", ":">>
SAMPLE_OUTPUT ==
    <<"S", "A", "M", "P", "L", "E", " ", "O", "U", "T", "P", "U", "T", ":">>

\* lines 178-180: the bold replacements, in the order given
RECURSIVE FormatBold(_, _)
FormatBold(problem_text, bolded_texts) ==
    IF bolded_texts = <<>> THEN problem_text
    ELSE FormatBold(
             IF bolded_texts[1] \notin {SAMPLE_INPUT, SAMPLE_OUTPUT}
             THEN Replace(problem_text, bolded_texts[1],
                          BOLD \o bolded_texts[1] \o BOLD)
             ELSE problem_text,
             Tail(bolded_texts))

NOT_FOUND ==
    <<"P", "r", "o", "b", "l", "e", "m", " ", "t", "e", "x", "t", " ", "n",
      "o", "t", " ", "f", "o", "u", "n", "d", ".">>

\* USACOProblem._format_problem_statement, the two sets iterated in the
\* orders given
FormatProblemStatement(page, subheaders, bolded_texts) ==
    IF ~page.has_div THEN NOT_FOUND
    ELSE CleanMarkdownText(
             FormatBold(
                 FormatSamples(
                     FormatSubheaders(CleanMarkdownText(page.div_text), subheaders),
                     StripAll(page.pre_in), StripAll(page.pre_out)),
                 bolded_texts))

\* USACOProblem._format_abreviated_title, for titles of two words or more
FormatAbreviatedTitle(info) ==
    LET year == Split(info.contest_title, " ")[2]
        ptok == Split(info.problem_title, " ")
        problem_number == Split(ptok[2], ".")[1]
        problem_name == Join(SubSeq(ptok, 3, Len(ptok)), <<"_">>)
    IN  <<"P">> \o problem_number \o <<"_">> \o year \o <<"-">> \o problem_name

\* USACOProblem._format_problem
FormatProblem(info, problem_statement) ==
    CleanMarkdownText(
        <<"#", " ", "[">> \o info.contest_title \o <<"]", "(">> \o info.contest_url
            \o <<")", "\n", "\n", "#", "#", " ", "[">> \o info.problem_title
            \o <<"]", "(">> \o info.url \o <<")", "\n", "\n">> \o problem_statement)

\* USACOProblem._parse_problem_data on self.problem_info = info and the
\* parsed page: the exception raised (None when it returns) and
\* problem_info as the call leaves it
ParseSteps(info, page, subheaders, bolded_texts) ==
    LET parts == Split(page.onclick, "'")
        info1 == [info EXCEPT !.contest_url = USACO_BASE_URL \o parts[2]]
        info2 == [info1 EXCEPT !.contest_title = Strip(page.h2[1])]
        info3 == [info2 EXCEPT !.problem_title = Strip(page.h2[2])]
        ctok  == Split(info3.contest_title, " ")
        info4 == [info3 EXCEPT !.division = ctok[Len(ctok)]]
        info5 == [info4 EXCEPT !.abbreviated_title = FormatAbreviatedTitle(info4)]
        info6 == [info5 EXCEPT !.text =
                     FormatProblem(info5,
                         FormatProblemStatement(page, subheaders, bolded_texts))]
    IN  IF ~page.has_button THEN [err |-> "TypeError", info |-> info]
        ELSE IF ~page.has_onclick THEN [err |-> "KeyError", info |-> info]
        ELSE IF Len(parts) < 2 THEN [err |-> "IndexError", info |-> info]
        ELSE IF Len(page.h2) < 1 THEN [err |-> "AttributeError", info |-> info1]
        ELSE IF Len(page.h2) < 2 THEN [err |-> "IndexError", info |-> info2]
        ELSE IF Len(ctok) < 2 \/ Len(Split(info3.problem_title, " ")) < 2
        THEN [err |-> "IndexError", info |-> info4]
        ELSE [err |-> None, info |-> info6]

\* a variant that swallows the exception and returns normally
ParseSwallowingErrors(info, page, subheaders, bolded_texts) ==
    [err |-> None, info |-> ParseSteps(info, page, subheaders, bolded_texts).info]

\* lines 82-97
ParseProblemData(info, page, subheaders, bolded_texts) ==
    ParseSteps(info, page, subheaders, bolded_texts)

(***************************************************************************)
(* os.path (posixpath) and the file system                                 *)
(***************************************************************************)

SLASH == <<"/">>

\* s.rfind(c): the last 0-based index of character c in s, or -1
RECURSIVE RFind(_, _)
RFind(s, c) ==
    IF s = <<>> THEN -1
    ELSE IF s[Len(s)] = c THEN Len(s) - 1
    ELSE RFind(SubSeq(s, 1, Len(s) - 1), c)

\* s.rstrip("/")
RECURSIVE RStripSlash(_)
RStripSlash(s) ==
    IF s # <<>> /\ s[Len(s)] = "/" THEN RStripSlash(SubSeq(s, 1, Len(s) - 1)) ELSE s

\* os.path.dirname(p)
DirName(p) ==
    LET head == Slice(p, 0, RFind(p, "/") + 1)
    IN  IF head # <<>> /\ RStripSlash(head) # <<>> THEN RStripSlash(head) ELSE head

\* os.path.basename(p)
BaseName(p) == Slice(p, RFind(p, "/") + 1, Len(p))

\* os.path.join(a, b)
PathJoin(a, b) ==
    IF StartsWith(b, SLASH) THEN b
    ELSE IF a = <<>> \/ EndsWith(a, SLASH) THEN a \o b
    ELSE a \o SLASH \o b

\* the index of the first character of p[from..dot) that is not ".", or dot
RECURSIVE FirstNonDot(_, _, _)
FirstNonDot(p, from, dot) ==
    IF from >= dot THEN dot
    ELSE IF p[from + 1] # "." THEN from
    ELSE FirstNonDot(p, from + 1, dot)

\* os.path.splitext(p): <<root, ext>>; leading dots of the name are no extension
SplitExt(p) ==
    LET sepIndex == RFind(p, "/")
        dotIndex == RFind(p, ".")
    IN  IF dotIndex > sepIndex /\ FirstNonDot(p, sepIndex + 1, dotIndex) < dotIndex
        THEN <<Slice(p, 0, dotIndex), Slice(p, dotIndex, Len(p))>>
        ELSE <<p, <<>>>>

\* the directories of the modelled disk (absolute paths): a project
\* directory, its src directory and one more subdirectory
P_DIR == <<"/", "p">>
SRC_DIR == <<"/", "p", "/", "s", "r", "c">>
Dirs == { P_DIR, SRC_DIR, <<"/", "p", "/", "d">> }

\* the path the operating system resolves p to, from working directory cwdir
AbsPath(p, cwdir) == IF StartsWith(p, SLASH) THEN p ELSE PathJoin(cwdir, p)

\* os.path.exists(p)
Exists(p, cwdir, files) ==
    /\ p # <<>>
    /\ RStripSlash(AbsPath(p, cwdir)) \in Dirs \cup DOMAIN files

\* os.path.isdir(p)
IsDir(p, cwdir) == p # <<>> /\ RStripSlash(AbsPath(p, cwdir)) \in Dirs

\* os.listdir(directory), for a directory that exists
ListDir(directory, cwdir, files) ==
    LET d == RStripSlash(AbsPath(directory, cwdir))
    IN  {BaseName(f) : f \in {g \in DOMAIN files \cup Dirs : g # d /\ DirName(g) = d}}

(***************************************************************************)
(* USACOProblem.write_problem                                              *)
(***************************************************************************)

Digit(d) ==
    CASE d = 0 -> "0" [] d = 1 -> "1" [] d = 2 -> "2" [] d = 3 -> "3"
      [] d = 4 -> "4" [] d = 5 -> "5" [] d = 6 -> "6" [] d = 7 -> "7"
      [] d = 8 -> "8" [] d = 9 -> "9"

\* f"{num}" for num >= 0
RECURSIVE ToStr(_)
ToStr(num) ==
    IF num < 10 THEN <<Digit(num)>> ELSE ToStr(num \div 10) \o <<Digit(num % 10)>>

DOT_MD == <<".", "m", "d">>
DOT_TXT == <<".", "t", "x", "t">>

\* line 213: the characters a file name may not contain
InvalidChars == {"*", "?", "\"", "<", ">", "|"}

HasInvalidChars(save_as) == \E i \in 1..Len(save_as) : save_as[i] \in InvalidChars

HasSeparator(save_as) == Contains(save_as, <<"\\">>) \/ Contains(save_as, SLASH)

\* a variant that looks for the directory before it looks at the characters
ValidateSaveAsDirFirst(save_as, cwdir, files) ==
    IF HasSeparator(save_as) /\ ~Exists(DirName(save_as), cwdir, files)
    THEN [err |-> "DirectoryNotFound", ops |-> <<"exists">>]
    ELSE IF HasInvalidChars(save_as)
    THEN [err |-> "InvalidFileName",
          ops |-> IF HasSeparator(save_as) THEN <<"exists">> ELSE <<>>]
    ELSE IF Contains(save_as, <<".">>)
            /\ ~EndsWith(save_as, DOT_MD) /\ ~EndsWith(save_as, DOT_TXT)
    THEN [err |-> "UnsupportedFileType",
          ops |-> IF HasSeparator(save_as) THEN <<"exists">> ELSE <<>>]
    ELSE [err |-> None, ops |-> IF HasSeparator(save_as) THEN <<"exists">> ELSE <<>>]

\* lines 213-224: the three checks in the order the code makes them; err is
\* the error raised (None when all pass), ops the file system calls made
ValidateSaveAs(save_as, cwdir, files) ==
    IF HasInvalidChars(save_as)
    THEN [err |-> "InvalidFileName", ops |-> <<>>]
    ELSE IF Contains(save_as, <<".">>)
            /\ ~EndsWith(save_as, DOT_MD) /\ ~EndsWith(save_as, DOT_TXT)
    THEN [err |-> "UnsupportedFileType", ops |-> <<>>]
    ELSE IF HasSeparator(save_as)
    THEN [err |-> IF Exists(DirName(save_as), cwdir, files)
                  THEN None ELSE "DirectoryNotFound",
          ops |-> <<"exists">>]
    ELSE [err |-> None, ops |-> <<>>]

\* lines 226-236: <<directory, file_name>> and the file system calls made
ResolveDirectory(save_as, cwdir, files) ==
    IF Exists(DirName(save_as), cwdir, files)
    THEN [directory |-> DirName(save_as), file_name |-> BaseName(save_as),
          ops |-> <<"exists">>]
    ELSE [directory |-> IF EndsWith(cwdir, <<"s", "r", "c">>)
                        THEN Slice(cwdir, 0, Len(cwdir) - 4) ELSE cwdir,
          file_name |-> save_as,
          ops |-> <<"exists", "getcwd">>]

\* f"{base_name} ({num}){extension}"
Numbered(base_name, num, extension) ==
    base_name \o <<" ", "(">> \o ToStr(num) \o <<")">> \o extension

\* lines 248-250: the while loop, from num
RECURSIVE FirstFreeNum(_, _, _, _)
FirstFreeNum(base_name, extension, existing_files, num) ==
    IF Numbered(base_name, num, extension) \in existing_files
    THEN FirstFreeNum(base_name, extension, existing_files, num + 1)
    ELSE num

\* a variant without the while loop: a collision always yields number 1
TargetNameNoLoop(file_name, existing_files, overwrite) ==
    LET base_name == SplitExt(file_name)[1]
        ext       == SplitExt(file_name)[2]
        extension == IF ext = <<>> THEN DOT_MD ELSE ext
    IN  IF file_name \notin existing_files \/ overwrite
        THEN file_name
        ELSE Numbered(base_name, 1, extension)

\* lines 239-252: the name of the file to write in the directory
TargetName(file_name, existing_files, overwrite) ==
    LET base_name == SplitExt(file_name)[1]
        ext       == SplitExt(file_name)[2]
        extension == IF ext = <<>> THEN DOT_MD ELSE ext
    IN  IF file_name \notin existing_files \/ overwrite
        THEN file_name
        ELSE Numbered(base_name,
                      FirstFreeNum(base_name, extension, existing_files, 1),
                      extension)

\* lines 255-256: open(save_as, "w") and write; the error open raises, if any
OpenError(path, cwdir) ==
    IF BaseName(path) = <<>> \/ IsDir(path, cwdir) THEN "IsADirectoryError" ELSE None

\* a variant of the write that opens the file in append mode
FilesAfterAppend(files, abs, text) ==
    [f \in DOMAIN files \cup {abs} |->
        IF f # abs THEN files[f]
        ELSE IF abs \in DOMAIN files THEN files[abs] \o text ELSE text]

\* lines 255-256: the files once open(abs, "w") has truncated or created abs
\* and write(text) has filled it
FilesAfterWrite(files, abs, text) ==
    [f \in DOMAIN files \cup {abs} |-> IF f = abs THEN text ELSE files[f]]

NoWrite(save_as, overwrite) ==
    [save_as |-> save_as, overwrite |-> overwrite, result |-> None, ops |-> <<>>,
     directory |-> <<>>, file_name |-> <<>>, existing_files |-> {},
     target |-> <<>>, before |-> <<>>]

\* write_problem(save_as, overwrite) on a problem whose text is text: the
\* record of the call (result "ok" or the error raised, the file system
\* calls in order, the locals directory, file_name and existing_files, the
\* path opened, the files before the call) and the files after it
WriteProblem(save_as, overwrite, text, cwdir, files) ==
    LET call == [NoWrite(save_as, overwrite) EXCEPT !.before = files]
        v    == ValidateSaveAs(save_as, cwdir, files)
        r    == ResolveDirectory(save_as, cwdir, files)
        ops2 == v.ops \o r.ops \o <<"listdir">>
        ls   == ListDir(r.directory, cwdir, files)
        path == PathJoin(r.directory, TargetName(r.file_name, ls, overwrite))
    IN  IF v.err # None
        THEN [call |-> [call EXCEPT !.result = v.err, !.ops = v.ops], files |-> files]
        ELSE IF ~IsDir(r.directory, cwdir)
        THEN [call |-> [call EXCEPT !.result = "NotADirectoryError", !.ops = ops2],
              files |-> files]
        ELSE IF OpenError(path, cwdir) # None
        THEN [call |-> [call EXCEPT !.result = OpenError(path, cwdir),
                                    !.ops = ops2 \o <<"open">>,
                                    !.directory = r.directory,
                                    !.file_name = r.file_name,
                                    !.existing_files = ls, !.target = path],
              files |-> files]
        ELSE [call |-> [call EXCEPT !.result = "ok", !.ops = ops2 \o <<"open">>,
                                    !.directory = r.directory,
                                    !.file_name = r.file_name,
                                    !.existing_files = ls, !.target = path],
              files |-> FilesAfterWrite(files, AbsPath(path, cwdir), text)]

(***************************************************************************)
(* Bounded sets of strings                                                 *)
(***************************************************************************)

SeqsUpTo(S, n) == UNION {[1..k -> S] : k \in 0..n}

\* the cleanup pass is exercised on every text of at most MaxCleanLen
\* characters over CleanAlphabet
MaxCleanLen == 4
CleanAlphabet == {"a", " ", "\t", "\n", "\r"}

(***************************************************************************)
(* Each specification below exercises one part of the program; the         *)
(* variables of the other parts rest at these values.                      *)
(***************************************************************************)

CleanIdle ==
    /\ cl_pc = "idle"
    /\ cl_text = <<>>
    /\ cl_once = <<>>
    /\ cl_twice = <<>>

WriteIdle ==
    /\ usaco_problem = NoProblem
    /\ cwd = P_DIR
    /\ fs_files = <<>>
    /\ last_write = NoCall
    /\ n_writes = 0

FmtIdle ==
    /\ fm_pc = "idle"
    /\ fm_text = <<>>
    /\ fm_inputs = <<>>
    /\ fm_outputs = <<>>
    /\ fm_steps = <<>>

ConcIdle ==
    /\ cc_pc = <<>>
    /\ cc_save_as = <<>>
    /\ cc_listing = <<>>
    /\ cc_target = <<>>
    /\ cc_after = <<>>

\* no constructor call made or under way
NoConstruct == [url |-> <<>>, result |-> "none"]

CtorIdle ==
    /\ pc = "idle"
    /\ url = <<>>
    /\ attempts = 0
    /\ response = NoResponse
    /\ fetch_log = <<>>
    /\ construct = NoConstruct
    /\ problem_info = NoProblem

\* the widgets as _setup_ui leaves them
WidgetInit ==
    /\ url_entry = <<>>
    /\ scrape_button = "disabled"
    /\ save_button = "disabled"
    /\ text_area = <<>>
    /\ save_directory = P_DIR

GuiIdle == CtorIdle /\ WidgetInit

(***************************************************************************)
(* The cleanup pass applied once, then to its own output                   *)
(***************************************************************************)

CleanInit ==
    /\ cl_pc = "in"
    /\ cl_text \in SeqsUpTo(CleanAlphabet, MaxCleanLen)
    /\ cl_once = <<>>
    /\ cl_twice = <<>>
    /\ WriteIdle
    /\ FmtIdle
    /\ ConcIdle
    /\ GuiIdle

CleanOnce ==
    /\ cl_pc = "in"
    /\ cl_pc' = "once"
    /\ cl_once' = CleanMarkdownText(cl_text)
    /\ UNCHANGED <<cl_text, cl_twice>>
    /\ UNCHANGED <<writeVars, fmtVars, concVars, guiVars>>

CleanTwice ==
    /\ cl_pc = "once"
    /\ cl_pc' = "twice"
    /\ cl_twice' = CleanMarkdownText(cl_once)
    /\ UNCHANGED <<cl_text, cl_once>>
    /\ UNCHANGED <<writeVars, fmtVars, concVars, guiVars>>

NextClean == CleanOnce \/ CleanTwice

SpecClean == CleanInit /\ [][NextClean]_vars

\* the lines of a text as separated by "\n", the separator the pass joins with
Blank(line) == Strip(line) = <<>>

TwoBlankLines(text) ==
    LET ls == Split(text, "\n")
    IN  \E i \in 1..(Len(ls) - 1) : Blank(ls[i]) /\ Blank(ls[i + 1])

OneTrailingSpace(text) ==
    LET ls == Split(text, "\n")
    IN  \E i \in 1..Len(ls) : Len(ls[i]) - Len(RStrip(ls[i])) = 1

\* C7: the cleanup pass is idempotent, and its output has neither two
\* consecutive blank lines nor a line with exactly one trailing whitespace
\* character.
C7_CleanIdempotent ==
    /\ cl_pc # "in" =>
          /\ ~TwoBlankLines(cl_once)
          /\ ~OneTrailingSpace(cl_once)
    /\ cl_pc = "twice" => cl_twice = cl_once

\* the part of C7 about the shape of the output alone
C7_OutputShape ==
    cl_pc # "in" => ~TwoBlankLines(cl_once) /\ ~OneTrailingSpace(cl_once)

(***************************************************************************)
(* A caller holding a scraped problem: text edits and saves                *)
(***************************************************************************)

README == <<"R", "E", "A", "D", "M", "E">>

\* the save_as arguments tried: the default name, names with a supported and
\* an unsupported extension, reserved characters, relative and absolute
\* directories that exist or not, the name of a directory, a backslash
SaveAsSet ==
    { README,
      README \o DOT_MD,
      README \o DOT_TXT,
      README \o <<".", "p", "y">>,
      <<"R", "?">>,
      <<"d", "/">> \o README \o DOT_MD,
      <<"x", "/">> \o README \o DOT_MD,
      <<"x", "/", "R", "?", ".", "p", "y">>,
      P_DIR \o SLASH \o README \o DOT_MD,
      <<"d">>,
      <<"d", "\\">> \o README \o DOT_MD }

\* the files the directory may hold before the first save
InitialNames ==
    { README, README \o DOT_MD, README \o <<" ", "(", "1", ")">> \o DOT_MD }

OLD_TEXT == <<"o">>
GEN_TEXT == <<"#">>

\* the values the text setter is given; the second has the "\n" that the
\* text area's get("1.0", END) ends with
TextValues == { <<"x">>, <<"y", "\n">> }

\* every write_problem call the caller may make
WriteArgs == SaveAsSet \X BOOLEAN

\* a run makes at most MaxWrites write_problem calls
MaxWrites == 2

WriteInit ==
    /\ usaco_problem = [text |-> GEN_TEXT]
    /\ cwd \in {P_DIR, SRC_DIR}
    /\ \E names \in SUBSET InitialNames :
          fs_files = [f \in {PathJoin(P_DIR, n) : n \in names} |-> OLD_TEXT]
    /\ last_write = NoCall
    /\ n_writes = 0
    /\ CleanIdle
    /\ FmtIdle
    /\ ConcIdle
    /\ GuiIdle

\* the text setter (scraper.py lines 263-266)
TextSetter(value) ==
    /\ usaco_problem # NoProblem
    /\ usaco_problem' = [usaco_problem EXCEPT !.text = value]
    /\ UNCHANGED <<cwd, fs_files, last_write, n_writes>>
    /\ UNCHANGED <<cleanVars, fmtVars, concVars, guiVars>>

\* usaco_problem.write_problem(save_as=save_as, overwrite=overwrite)
WriteProblemCall(save_as, overwrite) ==
    /\ usaco_problem # NoProblem
    /\ LET w == WriteProblem(save_as, overwrite, usaco_problem.text, cwd, fs_files)
       IN  /\ n_writes < MaxWrites
           /\ n_writes' = n_writes + 1
           /\ last_write' = w.call
           /\ fs_files' = w.files
    /\ UNCHANGED <<usaco_problem, cwd>>
    /\ UNCHANGED <<cleanVars, fmtVars, concVars, guiVars>>

NextWrite ==
    \/ \E value \in TextValues : TextSetter(value)
    \/ \E save_as \in SaveAsSet, overwrite \in BOOLEAN :
          WriteProblemCall(save_as, overwrite)

SpecWrite == WriteInit /\ [][NextWrite]_vars


\* the last call got as far as choosing its target path
ReachedOpen == last_write.result \in {"ok", "IsADirectoryError"}

\* the name "<base> (k)<ext>" of the collision policy, ext defaulting to ".md"
PolicyName(file_name, k) ==
    LET ext == SplitExt(file_name)[2]
    IN  SplitExt(file_name)[1] \o <<" ", "(">> \o ToStr(k) \o <<")">>
            \o (IF ext = <<>> THEN <<".", "m", "d">> ELSE ext)

\* C3: collision policy. If overwrite is true or the requested name is not
\* in the listing read at save time, the path opened for writing is exactly
\* that name in the directory; otherwise it is "<base> (k)<ext>" for the
\* smallest k >= 1 whose name is not in the listing. With overwrite false the
\* name written is never one of the listing, and a successful save leaves
\* the file at that path.
C3_CollisionPolicy ==
    ReachedOpen =>
        LET c == last_write
            name == BaseName(c.target)
        IN  /\ c.target = PathJoin(c.directory, name)
            /\ IF c.overwrite \/ c.file_name \notin c.existing_files
               THEN name = c.file_name
               ELSE \E k \in 1..(Cardinality(c.existing_files) + 1) :
                       /\ name = PolicyName(c.file_name, k)
                       /\ name \notin c.existing_files
                       /\ \A j \in 1..(k - 1) :
                             PolicyName(c.file_name, j) \in c.existing_files
            /\ ~c.overwrite => name \notin c.existing_files
            /\ c.result = "ok" => AbsPath(c.target, cwd) \in DOMAIN fs_files

\* C3 witness: README.md requested without overwrite while README.md and
\* README (1).md exist, and README (2).md written
C3_Witness ==
    /\ last_write.result = "ok"
    /\ ~last_write.overwrite
    /\ last_write.file_name = README \o DOT_MD
    /\ README \o <<" ", "(", "1", ")">> \o DOT_MD \in last_write.existing_files
    /\ BaseName(last_write.target) = README \o <<" ", "(", "2", ")">> \o DOT_MD

\* C4: every successful save of a file name without extension writes a path
\* that ends in ".md".
C4_DefaultExtension ==
    (last_write.result = "ok" /\ ~Contains(last_write.file_name, <<".">>))
        => EndsWith(last_write.target, <<".", "m", "d">>)

\* C5: each save writes the problem's text as it is at the moment of the
\* save as the whole content of the target path, and changes no other file.
C5_SaveWritesCurrentText ==
    [][(n_writes' # n_writes /\ last_write'.result = "ok") =>
          LET abs == AbsPath(last_write'.target, cwd)
          IN  /\ DOMAIN fs_files' = DOMAIN fs_files \cup {abs}
              /\ fs_files'[abs] = usaco_problem.text
              /\ \A f \in DOMAIN fs_files : f # abs => fs_files'[f] = fs_files[f]]_vars

\* C5 witness: a save made after an edit, over an existing file, with
\* another file beside it
C5_Witness ==
    /\ last_write.result = "ok"
    /\ usaco_problem.text # GEN_TEXT
    /\ AbsPath(last_write.target, cwd) \in DOMAIN last_write.before
    /\ fs_files[AbsPath(last_write.target, cwd)] = usaco_problem.text
    /\ Cardinality(DOMAIN fs_files) >= 2

ReservedChars == {"*", "?", "\"", "<", ">", "|"}

\* C6: a save_as holding a reserved character is rejected as an invalid file
\* name before any file system call is made, whatever overwrite is and
\* whatever else is wrong with the path; no file changes.
C6_InvalidNameBeforeFs ==
    (last_write # NoCall
        /\ \E i \in 1..Len(last_write.save_as) : last_write.save_as[i] \in ReservedChars)
    => /\ last_write.result = "InvalidFileName"
       /\ last_write.ops = <<>>
       /\ fs_files = last_write.before

\* C6 witness: a rejected path that also has an unsupported extension and a
\* directory that does not exist
C6_Witness ==
    /\ last_write # NoCall
    /\ last_write.save_as = <<"x", "/", "R", "?", ".", "p", "y">>
    /\ last_write.overwrite
    /\ last_write.result = "InvalidFileName"


(***************************************************************************)
(* The sample loop of _format_problem_statement on bounded inputs          *)
(***************************************************************************)

\* the label as it stands when the text has one line break where the target
\* has two (a whitespace mismatch)
INPUT_LABEL_1NL == SubSeq(INPUT_LABEL, 1, Len(INPUT_LABEL) - 1)

\* sample texts: one is a prefix of another
InputSamples == { <<"1">>, <<"1", " ", "2">> }
OutputSamples == { <<"6">> }

\* a section of the text: a label and what follows it
Sections ==
    { l \o b : l \in {INPUT_LABEL, OUTPUT_LABEL, INPUT_LABEL_1NL},
               b \in InputSamples \cup OutputSamples }

\* at most MaxSamples samples of each kind, at most MaxSections sections
MaxSamples == 2
MaxSections == 2

FmtInit ==
    /\ fm_pc = "in"
    /\ \E secs \in SeqsUpTo(Sections, MaxSections) : fm_text = Join(secs, <<"\n">>)
    /\ fm_inputs \in SeqsUpTo(InputSamples, MaxSamples)
    /\ fm_outputs \in SeqsUpTo(OutputSamples, MaxSamples)
    /\ fm_steps = <<>>
    /\ CleanIdle
    /\ WriteIdle
    /\ ConcIdle
    /\ GuiIdle

FormatSampleBlocks ==
    /\ fm_pc = "in"
    /\ fm_pc' = "done"
    /\ fm_steps' = SampleSteps(fm_text, fm_inputs, fm_outputs, 1)
    /\ UNCHANGED <<fm_text, fm_inputs, fm_outputs>>
    /\ UNCHANGED <<cleanVars, writeVars, concVars, guiVars>>

NextFmt == FormatSampleBlocks

SpecFmt == FmtInit /\ [][NextFmt]_vars

\* the label followed by the whole sample in one ```txt block
FencedAfter(label, sample) ==
    label \o <<BQ, BQ, BQ, "t", "x", "t", "\n">> \o sample \o <<"\n", BQ, BQ, BQ>>

NPairs == IF Len(fm_inputs) <= Len(fm_outputs) THEN Len(fm_inputs) ELSE Len(fm_outputs)

FmtResult == fm_steps[Len(fm_steps)]

StepFences(a, b, label, sample) ==
    IF Contains(a, label \o sample)
    THEN Contains(b, FencedAfter(label, sample))
    ELSE b = a

Calls == {1, 2}

Other(c) == 3 - c

\* the text of each call's problem
CallText(c) == <<"t", ToStr(c)[1]>>

ConcSaveAs ==
    { README, README \o DOT_MD, README \o DOT_TXT, <<"d", "/">> \o README \o DOT_MD }

ConcInit ==
    /\ cc_pc = [c \in Calls |-> "start"]
    /\ cc_save_as \in ConcSaveAs
    /\ cc_listing = [c \in Calls |-> {}]
    /\ cc_target = [c \in Calls |-> <<>>]
    /\ cc_after = [c \in Calls |-> FALSE]
    /\ usaco_problem = NoProblem
    /\ cwd \in {P_DIR, SRC_DIR}
    /\ \E names \in SUBSET InitialNames :
          fs_files = [f \in {PathJoin(P_DIR, n) : n \in names} |-> OLD_TEXT]
    /\ last_write = NoCall
    /\ n_writes = 0
    /\ CleanIdle
    /\ FmtIdle
    /\ GuiIdle

\* lines 213-252 of call c: the checks, os.listdir and the choice of the path
ListDirectory(c) ==
    /\ cc_pc[c] = "start"
    /\ LET v == ValidateSaveAs(cc_save_as, cwd, fs_files)
           r == ResolveDirectory(cc_save_as, cwd, fs_files)
           ls == ListDir(r.directory, cwd, fs_files)
       IN  IF v.err # None \/ ~IsDir(r.directory, cwd)
           THEN /\ cc_pc' = [cc_pc EXCEPT ![c] = "failed"]
                /\ UNCHANGED <<cc_listing, cc_target, cc_after>>
           ELSE /\ cc_pc' = [cc_pc EXCEPT ![c] = "listed"]
                /\ cc_listing' = [cc_listing EXCEPT ![c] = ls]
                /\ cc_target' = [cc_target EXCEPT ![c] =
                       AbsPath(PathJoin(r.directory, TargetName(r.file_name, ls, FALSE)),
                               cwd)]
                /\ cc_after' = [cc_after EXCEPT ![c] = cc_pc[Other(c)] = "done"]
    /\ UNCHANGED <<cc_save_as, writeVars, cleanVars, fmtVars, guiVars>>

\* lines 255-256 of call c: open for writing and write
OpenAndWrite(c) ==
    /\ cc_pc[c] = "listed"
    /\ IF OpenError(cc_target[c], cwd) # None
       THEN /\ cc_pc' = [cc_pc EXCEPT ![c] = "failed"]
            /\ UNCHANGED fs_files
       ELSE /\ cc_pc' = [cc_pc EXCEPT ![c] = "done"]
            /\ fs_files' = FilesAfterWrite(fs_files, cc_target[c], CallText(c))
    /\ UNCHANGED <<cc_save_as, cc_listing, cc_target, cc_after>>
    /\ UNCHANGED <<usaco_problem, cwd, last_write, n_writes, cleanVars, fmtVars, guiVars>>

NextConc == \E c \in Calls : ListDirectory(c) \/ OpenAndWrite(c)

SpecConc == ConcInit /\ [][NextConc]_vars

BothDone == \A c \in Calls : cc_pc[c] = "done"

EachHasItsFile ==
    /\ cc_target[1] # cc_target[2]
    /\ \A c \in Calls :
          cc_target[c] \in DOMAIN fs_files /\ fs_files[cc_target[c]] = <<"t", ToStr(c)[1]>>

\* C10 as stated: under every interleaving of the list and open steps, the
\* two calls resolve to different paths and neither overwrites the file the
\* other wrote.
C10_IndependentTargets == BothDone => EachHasItsFile

\* C10 amended: the two calls resolve to different paths, and neither
\* overwrites the other's file, when one of them lists the directory after
\* the other has opened and written its file.
C10_TargetsDifferWhenListedAfterWrite ==
    (BothDone /\ \E c \in Calls : cc_after[c]) => EachHasItsFile

\* C10 witness: the requested name was taken, the second call listed after
\* the first wrote, and the two files stand side by side
C10_Witness ==
    /\ BothDone
    /\ cc_after[2]
    /\ BaseName(cc_save_as) \in cc_listing[1]
    /\ EachHasItsFile

(***************************************************************************)
(* The GUI: URL entry, Scrape, the text area and Save, with the            *)
(* constructor USACOProblem(url) run step by step                          *)
(***************************************************************************)

VALID_URL ==
    <<"h", "t", "t", "p", "s", ":", "/", "/", "u", "s", "a", "c", "o", ".",
      "o", "r", "g", "/", "i", "n", "d", "e", "x", ".", "p", "h", "p", "?",
      "p", "a", "g", "e", "=", "v", "i", "e", "w", "p", "r", "o", "b", "l",
      "e", "m", "2", "&", "c", "p", "i", "d", "=", "1">>

\* what the URL entry may hold: nothing, a problem URL, the same with blanks
\* around it, another origin, a page of the site that is not a problem
UrlSet ==
    { <<>>,
      VALID_URL,
      <<" ">> \o VALID_URL \o <<" ">>,
      <<"h", "t", "t", "p", "s", ":", "/", "/", "u", "s", "a", "c", "o",
        ".", "o", "r", "g", ".", "x", "/", "i", "n", "d", "e", "x", ".",
        "p", "h", "p", "?", "p", "a", "g", "e", "=", "v", "i", "e", "w",
        "p", "r", "o", "b", "l", "e", "m">>,
      <<"h", "t", "t", "p", "s", ":", "/", "/", "u", "s", "a", "c", "o",
        ".", "o", "r", "g", "/", "i", "n", "d", "e", "x", ".", "p", "h",
        "p", "?", "p", "a", "g", "e", "=", "o", "p", "e", "n">> }

ONCLICK ==
    <<"l", "o", "c", "a", "t", "i", "o", "n", "=", "'", "i", "n", "d", "e",
      "x", ".", "p", "h", "p", "?", "p", "a", "g", "e", "=", "d", "e", "c",
      "2", "3", "r", "e", "s", "u", "l", "t", "s", "'">>

CONTEST_H2 ==
    <<" ", "U", "S", "A", "C", "O", " ", "2", "0", "2", "3", " ", "D", "e",
      "c", "e", "m", "b", "e", "r", " ", "C", "o", "n", "t", "e", "s", "t",
      ",", " ", "B", "r", "o", "n", "z", "e", " ">>

PROBLEM_H2 ==
    <<" ", "P", "r", "o", "b", "l", "e", "m", " ", "2", ".", " ", "H", "o",
      "o", "f", "b", "a", "l", "l", " ">>

DIV_TEXT ==
    <<"\n", "A", "d", "d", ".", " ", "\n", "\n", "\n", "S", "A", "M", "P",
      "L", "E", " ", "I", "N", "P", "U", "T", ":", "\n", "1", " ", "2",
      "\n", "S", "A", "M", "P", "L", "E", " ", "O", "U", "T", "P", "U",
      "T", ":", "\n", "3", "\n", "N", "o", "t", "e", ":", " ", "e", "a",
      "s", "y", ".", "\n">>

\* a problem page as the parser sees it: the first button and its onclick
\* attribute, the text of each h2, and inside div.problem-text the flattened
\* text and the text of each h4, pre.in, pre.out and strong
GoodPage ==
    [has_button |-> TRUE, has_onclick |-> TRUE, onclick |-> ONCLICK,
     h2 |-> <<CONTEST_H2, PROBLEM_H2>>,
     has_div |-> TRUE, div_text |-> DIV_TEXT,
     h4 |-> <<SAMPLE_INPUT, SAMPLE_OUTPUT>>,
     pre_in |-> << <<"1", " ", "2", "\n">> >>,
     pre_out |-> << <<"3", "\n">> >>,
     strong |-> << <<"N", "o", "t", "e", ":">> >>]

PageNoDiv == [GoodPage EXCEPT !.has_div = FALSE]
PageNoButton == [GoodPage EXCEPT !.has_button = FALSE]
PageNoOnclick == [GoodPage EXCEPT !.has_onclick = FALSE]
PageOnclickNoQuote == [GoodPage EXCEPT !.onclick = <<"b", "a", "c", "k", "(", ")">>]
PageNoH2 == [GoodPage EXCEPT !.h2 = <<>>]
PageOneH2 == [GoodPage EXCEPT !.h2 = <<CONTEST_H2>>]
PageShortTitle == [GoodPage EXCEPT !.h2 = << <<"U", "S", "A", "C", "O">>, PROBLEM_H2>>]

PageSet ==
    { GoodPage, PageNoDiv, PageNoButton, PageNoOnclick, PageOnclickNoQuote,
      PageNoH2, PageOneH2, PageShortTitle }

\* what requests.get may return: a page with status 200, or an error page
Responses ==
    {[status |-> "200", page |-> pg] : pg \in PageSet}
        \cup {[status |-> "404", page |-> PageNoButton]}

\* what the user may type into the text area
TypedTexts == { <<"x">> }

\* what the save dialog may return: cancelled, or an absolute path
DialogResults ==
    { <<>>, P_DIR \o SLASH \o README \o DOT_MD }

\* _validate_url: the state it gives the Scrape button
ValidateUrl(entry) ==
    IF StartsWith(Strip(entry), USACO_BASE_URL)
           /\ Contains(Strip(entry), PROBLEM_SUBWEBSITE)
    THEN "normal" ELSE "disabled"

\* _validate_save: the state it gives the Save button
ValidateSave(problem) ==
    IF problem = NoProblem THEN "disabled" ELSE "normal"

GuiInit ==
    /\ CtorIdle
    /\ WidgetInit
    /\ usaco_problem = NoProblem
    /\ cwd = SRC_DIR
    /\ fs_files = <<>>
    /\ last_write = NoCall
    /\ n_writes = 0
    /\ CleanIdle
    /\ FmtIdle
    /\ ConcIdle

\* the content of the URL entry changes (typed or pasted)
UrlEdited(u) ==
    /\ pc = "idle"
    /\ u # url_entry
    /\ url_entry' = u
    /\ UNCHANGED <<scrape_button, save_button, text_area, save_directory>>
    /\ UNCHANGED <<ctorVars, writeVars, cleanVars, fmtVars, concVars>>

\* <KeyRelease> in the URL entry: _validate_url
UrlKeyRelease ==
    /\ pc = "idle"
    /\ scrape_button' = ValidateUrl(url_entry)
    /\ UNCHANGED <<url_entry, save_button, text_area, save_directory>>
    /\ UNCHANGED <<ctorVars, writeVars, cleanVars, fmtVars, concVars>>

\* <Return> in the URL entry or a click on Scrape: _scrape_problem, then
\* _validate_save.  With the button disabled _scrape_problem returns at
\* line 114; otherwise it enters USACOProblem(url_entry.get().strip()).
ScrapeProblem ==
    /\ pc = "idle"
    /\ IF scrape_button = "disabled"
       THEN /\ save_button' = ValidateSave(usaco_problem)
            /\ UNCHANGED ctorVars
       ELSE /\ pc' = "init"
            /\ url' = Strip(url_entry)
            /\ construct' = [url |-> Strip(url_entry), result |-> "running"]
            /\ attempts' = 0
            /\ response' = NoResponse
            /\ fetch_log' = <<>>
            /\ problem_info' = NoProblem
            /\ UNCHANGED save_button
    /\ UNCHANGED <<url_entry, scrape_button, text_area, save_directory>>
    /\ UNCHANGED <<writeVars, cleanVars, fmtVars, concVars>>

\* the constructor raises: _scrape_problem ends at line 116 without
\* assigning, and _validate_save runs
ConstructorRaises(error) ==
    /\ pc' = "idle"
    /\ construct' = [construct EXCEPT !.result = error]
    /\ save_button' = ValidateSave(usaco_problem)
    /\ UNCHANGED <<url, attempts, response>>
    /\ UNCHANGED <<url_entry, scrape_button, text_area, save_directory>>
    /\ UNCHANGED <<writeVars, cleanVars, fmtVars, concVars>>

\* __init__ lines 18-32
ConstructInit ==
    /\ pc = "init"
    /\ IF ~is_valid_url(url)
       THEN /\ ConstructorRaises("InvalidUrl")
            /\ UNCHANGED <<fetch_log, problem_info>>
       ELSE /\ pc' = "fetch"
            /\ problem_info' = NewProblemInfo(url)
            /\ UNCHANGED <<url, attempts, response, fetch_log, construct>>
            /\ UNCHANGED <<widgetVars, writeVars, cleanVars, fmtVars, concVars>>

\* one turn of the while loop of _fetch_problem_page: requests.get returns a
\* response, raises ConnectionError, or raises another exception, which
\* nothing catches
FetchAttempt ==
    /\ pc = "fetch"
    /\ KeepTrying(response, attempts)
    /\ \/ \E r \in Responses :
            /\ response' = r
            /\ fetch_log' = Append(fetch_log, r.status)
            /\ UNCHANGED <<pc, url, attempts, construct, problem_info>>
            /\ UNCHANGED <<widgetVars, writeVars, cleanVars, fmtVars, concVars>>
       \/ /\ attempts' = attempts + 1
          /\ fetch_log' = Append(fetch_log, "ConnectionError")
          /\ UNCHANGED <<pc, url, response, construct, problem_info>>
          /\ UNCHANGED <<widgetVars, writeVars, cleanVars, fmtVars, concVars>>
       \/ /\ fetch_log' = Append(fetch_log, "ReadTimeout")
          /\ ConstructorRaises("ReadTimeout")
          /\ UNCHANGED problem_info

\* _fetch_problem_page lines 75-80, after the loop
FetchReturn ==
    /\ pc = "fetch"
    /\ ~KeepTrying(response, attempts)
    /\ IF response = NoResponse
       THEN /\ ConstructorRaises("ConnectionError")
            /\ UNCHANGED <<fetch_log, problem_info>>
       ELSE /\ pc' = "parse"
            /\ UNCHANGED <<url, attempts, response, fetch_log, construct, problem_info>>
            /\ UNCHANGED <<widgetVars, writeVars, cleanVars, fmtVars, concVars>>

\* _parse_problem_data, and when it returns _scrape_problem lines 116-118
\* and _validate_save
ParseAndShow ==
    /\ pc = "parse"
    /\ \E subheaders \in Perms(StripSet(response.page.h4)),
          bolded_texts \in Perms(StripSet(response.page.strong)) :
          LET r == ParseProblemData(problem_info, response.page,
                                    subheaders, bolded_texts)
          IN  /\ problem_info' = r.info
              /\ IF r.err # None
                 THEN /\ ConstructorRaises(r.err)
                      /\ UNCHANGED fetch_log
                 ELSE /\ pc' = "idle"
                      /\ construct' = [construct EXCEPT !.result = "ok"]
                      /\ usaco_problem' = r.info
                      /\ text_area' = r.info.text
                      /\ save_button' = "normal"
                      /\ UNCHANGED <<url, attempts, response, fetch_log>>
                      /\ UNCHANGED <<url_entry, scrape_button, save_directory>>
                      /\ UNCHANGED <<cwd, fs_files, last_write, n_writes>>
                      /\ UNCHANGED <<cleanVars, fmtVars, concVars>>

\* the user edits the text area; <KeyRelease>: _update_text.  get("1.0", END)
\* is the content and a newline.
UpdateText(content) ==
    /\ pc = "idle"
    /\ text_area' = content
    /\ IF usaco_problem # NoProblem
       THEN usaco_problem' = [usaco_problem EXCEPT !.text = content \o <<"\n">>]
       ELSE UNCHANGED usaco_problem
    /\ UNCHANGED <<url_entry, scrape_button, save_button, save_directory>>
    /\ UNCHANGED <<cwd, fs_files, last_write, n_writes>>
    /\ UNCHANGED <<ctorVars, cleanVars, fmtVars, concVars>>

\* the Save button: _save_problem, the dialog returning file_directory
SaveProblem(file_directory) ==
    /\ pc = "idle"
    /\ save_button = "normal"
    /\ IF file_directory # <<>>
       THEN LET w == WriteProblem(file_directory, TRUE, usaco_problem.text,
                                  cwd, fs_files)
            IN  /\ n_writes < MaxWrites
                /\ n_writes' = n_writes + 1
                /\ save_directory' = DirName(file_directory)
                /\ last_write' = w.call
                /\ fs_files' = w.files
       ELSE UNCHANGED <<save_directory, last_write, fs_files, n_writes>>
    /\ UNCHANGED <<url_entry, scrape_button, save_button, text_area>>
    /\ UNCHANGED <<usaco_problem, cwd>>
    /\ UNCHANGED <<ctorVars, cleanVars, fmtVars, concVars>>

Next ==
    \/ \E u \in UrlSet : UrlEdited(u)
    \/ UrlKeyRelease
    \/ ScrapeProblem
    \/ ConstructInit
    \/ FetchAttempt
    \/ FetchReturn
    \/ ParseAndShow
    \/ \E content \in TypedTexts : UpdateText(content)
    \/ \E file_directory \in DialogResults : SaveProblem(file_directory)

Spec == GuiInit /\ [][Next]_vars

\* requests.get returns or raises within its timeout, time.sleep returns, and
\* the interpreter keeps running the constructor up to the end of the fetch
FairSpec ==
    /\ Spec
    /\ WF_vars(ConstructInit)
    /\ WF_vars(FetchAttempt)
    /\ WF_vars(FetchReturn)

\* the requests.get outcomes of the constructor call that were connection
\* errors
AllConnectionErrors(log) ==
    \A i \in 1..Len(log) : log[i] = "ConnectionError"

\* the constructor call has left _fetch_problem_page
FetchOver ==
    pc = "parse" \/ (pc = "idle" /\ construct.result \notin {"none", "InvalidUrl"})

FetchSafety ==
    /\ Len(fetch_log) <= 3
    /\ \A i \in 1..(Len(fetch_log) - 1) : fetch_log[i] = "ConnectionError"
    /\ construct.result = "ConnectionError"
          => Len(fetch_log) = 3 /\ AllConnectionErrors(fetch_log)
    /\ FetchOver /\ Len(fetch_log) = 3 /\ AllConnectionErrors(fetch_log)
          => construct.result = "ConnectionError"
    /\ pc = "parse"
          => /\ fetch_log # <<>>
             /\ fetch_log[Len(fetch_log)] = response.status
             /\ response.status \in {"200", "404"}

\* C1: for a valid URL the fetch issues at most 3 GETs, every GET but the
\* last ended in a connection error (so nothing follows a response, and only
\* a connection error is retried), a response of any status goes on to the
\* parser, the constructor ends in ConnectionError exactly when 3 GETs all
\* ended in a connection error, and a fetch that has started always ends.
C1_FetchBoundedAndTerminates ==
    /\ []FetchSafety
    /\ (pc = "fetch") ~> (pc # "fetch")

\* three connection errors in a row, and the constructor has raised
C1_Witness ==
    /\ pc = "idle"
    /\ construct.result = "ConnectionError"
    /\ fetch_log = <<"ConnectionError", "ConnectionError", "ConnectionError">>

BASE_ORIGIN ==
    <<"h", "t", "t", "p", "s", ":", "/", "/", "u", "s", "a", "c", "o", ".",
      "o", "r", "g", "/">>
PROBLEM_MARKER ==
    <<"i", "n", "d", "e", "x", ".", "p", "h", "p", "?", "p", "a", "g", "e",
      "=", "v", "i", "e", "w", "p", "r", "o", "b", "l", "e", "m">>

\* the URL is empty, does not start with the base origin, or does not contain
\* the marker
FailsValidity(u) ==
    \/ u = <<>>
    \/ ~StartsWith(u, BASE_ORIGIN)
    \/ ~Contains(u, PROBLEM_MARKER)

\* C2: once the constructor is past its first step, it has ended in
\* InvalidUrl exactly when its URL is empty, does not start with
\* "https://usaco.org/" or does not contain "index.php?page=viewproblem";
\* and a call that ended in InvalidUrl issued no request and built no record.
C2_InvalidUrlNoRequest ==
    (construct.result # "none" /\ pc # "init")
        => /\ construct.result = "InvalidUrl" <=> FailsValidity(construct.url)
           /\ construct.result = "InvalidUrl"
                 => fetch_log = <<>> /\ problem_info = NoProblem

\* the constructor was given a page of the site that is not a problem page,
\* and raised
C2_Witness ==
    /\ construct.result = "InvalidUrl"
    /\ StartsWith(construct.url, BASE_ORIGIN)
    /\ ~Contains(construct.url, PROBLEM_MARKER)
    /\ scrape_button = "normal"

ExtractedFields ==
    {"contest_url", "contest_title", "problem_title", "division",
     "abbreviated_title", "text"}

Populated(info) == \A f \in ExtractedFields : info[f] # NONE

\* the step in which the constructor call ends in an exception
ConstructorFails ==
    construct.result = "running" /\ construct'.result \notin {"running", "ok"}

\* C8: every record the caller holds has its six extracted fields populated,
\* and a step in which the constructor fails (invalid URL, fetch or parse
\* error) leaves what the caller holds - a record or none - as it was.
C8_NoPartialRecord ==
    /\ [](usaco_problem # NoProblem => Populated(usaco_problem))
    /\ [][ConstructorFails => usaco_problem' = usaco_problem]_vars

\* a scrape failed on a page with one h2, leaving the object under
\* construction half filled, while the caller holds an earlier record
C8_Witness ==
    /\ pc = "idle"
    /\ construct.result = "IndexError"
    /\ problem_info # NoProblem
    /\ problem_info.contest_title # NONE
    /\ problem_info.problem_title = NONE
    /\ usaco_problem # NoProblem

====
